---- MODULE Spec2Model ----
(***************************************************************************)
(* Model of package twitterstream (src/stream.go): Open and the Stream     *)
(* methods fatal, Close, Err, Next and UnmarshalNext, driven by one        *)
(* sequential caller.                                                      *)
(*                                                                         *)
(* The collaborators the package calls are modelled by what they do:       *)
(*   - resp.Body (io.ReadCloser): the bytes still to be delivered (wire),  *)
(*     the error every Read returns once they are exhausted (tail), and    *)
(*     the number of Close invocations (closeCount); a Read hands over     *)
(*     some of the bytes, the last of them with or without the error; a    *)
(*     Read after Close fails;                                             *)
(*   - bufio.Reader: the buffered unread bytes (buf, at most BufSize) and  *)
(*     the pending read error (berr); ReadSlice and fill as in bufio;      *)
(*   - url.Values: map objects on a heap, addressed by reference, so that  *)
(*     copying a map and aliasing it are different things;                 *)
(*   - json.Unmarshal: the syntax of JSON and the value an empty           *)
(*     interface{} receives.                                               *)
(* Bytes are integers 0..255.                                              *)
(***************************************************************************)
EXTENDS Integers, Sequences, FiniteSets, TLC

VARIABLES
    phase,       \* caller position: "idle", "open" (Open returned ts), "openfailed"
    heap,        \* url.Values objects by reference: "params" (caller's), "pcopy"
    posted,      \* the form http.PostForm was given
    body0,       \* every byte the response body delivers, as sent by the server
    wire,        \* bytes of the body not yet read by the bufio.Reader
    tail,        \* error of each Read once wire is exhausted
    bodySet,     \* ts.body != nil
    closeCount,  \* invocations of ts.body.Close()
    closeRet,    \* what ts.body.Close() returned to Close() the last time
    buf,         \* ts.r: buffered, unread bytes
    berr,        \* ts.r: pending read error
    err,         \* ts.err
    resp,        \* what http.PostForm returned: transport outcome and status code
    thr,         \* two threads on one Stream: where Next and Close stand, line by line
    ret          \* what the last call returned, and the Reads it issued

vars == <<phase, heap, posted, body0, wire, tail, bodySet, closeCount, closeRet, buf, berr, err,
         resp, thr, ret>>

----------------------------------------------------------------------------
(* Bounds *)

\* Capacity of the read buffer in the model; the program uses 8192
\* (bufio.NewReaderSize(resp.Body, 8192)), scaled down here.
BufSize == 6

\* Number of pieces a response body is assembled from.
MaxPieces == 3

\* Number of Close() calls that reach ts.body.Close() on a stream without error.
MaxClose == 2

----------------------------------------------------------------------------
(* Values *)

Nil == "nil"
NilSlice == <<>>

CR == 13

StatusOK == 200

Statuses == {StatusOK, 404, 503}

ReadErrors == {"EOF", "ErrConnReset"}

\* Bytes one Read of the response body hands over at most: a byte at a time,
\* or as many as there is room for.
ChunkSizes == {1, BufSize}

\* The ways one call lets the response body answer its Reads: at most max
\* bytes per Read, and the last bytes of the body together with the error
\* (last) or the error on a Read of its own.
ReadModes == [max : ChunkSizes, last : BOOLEAN]

\* What Close on the response body can return.
CloseErrors == {Nil, "ErrClose"}

\* No call in progress: Next and Close both before their first line.
\*   pcN      where the thread calling Next stands: "idle" (outside a call),
\*            "read" (in the for loop), "fatalClose", "fatalSet" (in fatal)
\*   e        the error Next is passing to fatal
\*   reads    the Reads the call of Next in progress has issued
\*   skipped  the keepalives that call has dropped
\*   pcC      where the thread calling Close stands: "idle", "closing" (past
\*            the check of ts.err), "closed", "sticky" (returned ts.err)
NoThreads == [pcN |-> "idle", e |-> Nil, reads |-> 0, skipped |-> 0, pcC |-> "idle"]

\* The value of an interface{} target nothing was decoded into.
NilValue == [nil |-> TRUE]

NoRet == [op |-> "none", ok |-> FALSE, p |-> NilSlice, err |-> Nil,
          code |-> 0, msg |-> <<>>, reads |-> 0, decodes |-> 0, data |-> NilValue]

Min(a, b) == IF a < b THEN a ELSE b

Take(s, k) == SubSeq(s, 1, k)
Drop(s, k) == SubSeq(s, k + 1, Len(s))

RECURSIVE Ones(_)
Ones(k) == IF k = 0 THEN <<>> ELSE <<49>> \o Ones(k - 1)

\* Pieces of a response body: a bare delimiter, one byte without delimiter,
\* a well-formed JSON record ("11"), a malformed one ("x1"), and a record that
\* with its delimiter is longer than the read buffer.
Pieces == { <<CR>>, <<49>>, <<49, 49, CR>>, <<120, 49, CR>>, Ones(BufSize) \o <<CR>> }

RECURSIVE WiresOf(_)
WiresOf(k) == IF k = 0 THEN { <<>> }
              ELSE LET W == WiresOf(k - 1)
                   IN W \cup { w \o q : w \in W, q \in Pieces }

Wires == WiresOf(MaxPieces)

----------------------------------------------------------------------------
(* url.Values *)

EmptyMap == [k \in {} |-> <<>>]

MapSet(m, k, v) == [x \in DOMAIN m \cup {k} |-> IF x = k THEN <<v>> ELSE m[x]]
MapDel(m, k) == [x \in DOMAIN m \ {k} |-> m[x]]

\* oauth.Client.SignParam: mutates the map it is given in place.
SignParam(m) ==
    LET m1 == MapDel(m, "oauth_signature")
        m2 == MapSet(m1, "oauth_token", "token")
        m3 == MapSet(m2, "oauth_consumer_key", "consumer")
    IN MapSet(m3, "oauth_signature", "signature")

ParamChoices ==
    { MapSet(EmptyMap, "track", "go"),
      MapSet(MapSet(EmptyMap, "track", "go"), "oauth_signature", "stale") }

\* Mutant: signs the caller's map itself (pcopy := params).
SetupRequestBodyAliased(h, p) == [h EXCEPT ![p] = SignParam(h[p]), !["pcopy"] = SignParam(h[p])]

\* Open, "Setup request body": a new map, the key-by-key copy, the signing.
\* The copy shares the value slices with the caller's map; Set and Del replace
\* or remove entries of the map they are given and write into no slice.
SetupRequestBody(h, p) ==
    LET h1 == [h EXCEPT !["pcopy"] = EmptyMap]
        h2 == [h1 EXCEPT !["pcopy"] = [k \in DOMAIN h1[p] |-> h1[p][k]]]
    IN [h2 EXCEPT !["pcopy"] = SignParam(h2["pcopy"])]


----------------------------------------------------------------------------
(* resp.Body and bufio.Reader *)

\* One Read on the response body with room for `space` bytes; the body
\* answers in the way n, one of ReadModes: at most n.max bytes, and with
\* n.last the bytes that end the body come together with its error.
Read(w, closed, t, space, n) ==
    IF closed THEN [data |-> <<>>, err |-> "ErrBodyClosed"]
    ELSE IF w = <<>> THEN [data |-> <<>>, err |-> t]
    ELSE LET k == Min(Min(n.max, space), Len(w))
         IN [data |-> Take(w, k), err |-> IF n.last /\ k = Len(w) THEN t ELSE Nil]

\* Mutant: the last occurrence instead of the first.
IndexByteLast(s, c, i) ==
    IF \A j \in i..Len(s) : s[j] # c THEN 0
    ELSE CHOOSE j \in i..Len(s) : s[j] = c /\ \A k \in (j + 1)..Len(s) : s[k] # c

RECURSIVE IndexByte(_, _, _)
\* bytes.IndexByte from position i: index of the first c in s, 0 when absent.
IndexByte(s, c, i) ==
    IF i > Len(s) THEN 0
    ELSE IF s[i] = c THEN i
    ELSE IndexByte(s, c, i + 1)

RECURSIVE ReadSliceLoopUnbounded(_, _, _, _, _, _, _)
\* Mutant: the buffer grows instead of reporting that it is full.
ReadSliceLoopUnbounded(b, e, w, closed, t, n, k) ==
    LET i == IndexByte(b, CR, 1) IN
    IF i > 0 THEN
        [line |-> Take(b, i), err |-> Nil, buf |-> Drop(b, i), berr |-> e,
         wire |-> w, reads |-> k]
    ELSE IF e # Nil THEN
        [line |-> b, err |-> e, buf |-> <<>>, berr |-> Nil, wire |-> w, reads |-> k]
    ELSE
        LET rd == Read(w, closed, t, BufSize, n) IN
        ReadSliceLoopUnbounded(b \o rd.data, rd.err, Drop(w, Len(rd.data)), closed, t, n, k + 1)

RECURSIVE ReadSliceLoop(_, _, _, _, _, _, _)
\* bufio.Reader.ReadSlice(delim) on buffer b with pending error e, reading
\* from body (w, closed, t); k counts the Reads issued.
ReadSliceLoop(b, e, w, closed, t, n, k) ==
    LET i == IndexByte(b, CR, 1) IN
    IF i > 0 THEN
        [line |-> Take(b, i), err |-> Nil, buf |-> Drop(b, i), berr |-> e,
         wire |-> w, reads |-> k]
    ELSE IF e # Nil THEN
        [line |-> b, err |-> e, buf |-> <<>>, berr |-> Nil, wire |-> w, reads |-> k]
    ELSE IF Len(b) >= BufSize THEN
        [line |-> b, err |-> "ErrBufferFull", buf |-> <<>>, berr |-> e,
         wire |-> w, reads |-> k]
    ELSE
        LET rd == Read(w, closed, t, BufSize - Len(b), n) IN
        ReadSliceLoop(b \o rd.data, rd.err, Drop(w, Len(rd.data)), closed, t, n, k + 1)

ReadSlice(b, e, w, closed, t, n) == ReadSliceLoop(b, e, w, closed, t, n, 0)

RECURSIVE ReadAllLoop(_, _, _, _)
\* Mutant: one Read instead of reading to the end.
ReadAllOneRead(w, n, acc, k) ==
    [data |-> Take(w, Min(n.max, Len(w))), reads |-> 1]

\* ioutil.ReadAll(ts.r) on a fresh reader: Reads until one fails, keeps every
\* byte read and drops the error.
ReadAllLoop(w, n, acc, k) ==
    LET rd == Read(w, FALSE, "EOF", BufSize, n) IN
    IF rd.err # Nil THEN [data |-> acc \o rd.data, reads |-> k + 1]
    ELSE ReadAllLoop(Drop(w, Len(rd.data)), n, acc \o rd.data, k + 1)

----------------------------------------------------------------------------
(* json.Unmarshal into an empty interface{} *)

WhiteSpace == {32, 9, 13, 10}
Digits == 48..57
HexDigits == Digits \cup (97..102) \cup (65..70)

\* The bytes that may follow a backslash in a string, with what they stand for.
SimpleEscapes == {34, 92, 47, 98, 102, 110, 114, 116}
Unescape(c) ==
    CASE c = 98 -> 8 [] c = 102 -> 12 [] c = 110 -> 10 [] c = 114 -> 13 [] c = 116 -> 9
      [] OTHER -> c

LitTrue == <<116, 114, 117, 101>>
LitFalse == <<102, 97, 108, 115, 101>>
LitNull == <<110, 117, 108, 108>>

\* The bytes s stand in p from position i on.
HasAt(p, i, s) == i + Len(s) - 1 <= Len(p) /\ SubSeq(p, i, i + Len(s) - 1) = s

RECURSIVE SkipWS(_, _), ParseString(_, _), ParseValue(_, _), ParseElems(_, _),
          ParseMembers(_, _)

SkipWS(p, i) == IF i <= Len(p) /\ p[i] \in WhiteSpace THEN SkipWS(p, i + 1) ELSE i

\* Position after the digits that start at i.
ParseDigits(p, i) ==
    IF \A k \in i..Len(p) : p[k] \in Digits THEN IF i > Len(p) THEN i ELSE Len(p) + 1
    ELSE CHOOSE j \in i..Len(p) : p[j] \notin Digits /\ \A k \in i..(j - 1) : p[k] \in Digits

\* Position after the integer part that starts at i, 0 when there is none.
ParseInt(p, i) ==
    IF i > Len(p) THEN 0
    ELSE IF p[i] = 48 THEN i + 1
    ELSE IF p[i] \in 49..57 THEN ParseDigits(p, i + 1)
    ELSE 0

\* Position after the fraction, if any, that starts at i; 0 for a "." without digit.
ParseFrac(p, i) ==
    IF i <= Len(p) /\ p[i] = 46
    THEN IF i + 1 <= Len(p) /\ p[i + 1] \in Digits THEN ParseDigits(p, i + 1) ELSE 0
    ELSE i

\* Position of the first digit of the exponent that starts at i ("e", "E").
ExpDigits(p, i) == IF i + 1 <= Len(p) /\ p[i + 1] \in {43, 45} THEN i + 2 ELSE i + 1

\* Position after the exponent, if any, that starts at i; 0 when it has no digit.
ParseExp(p, i) ==
    IF i <= Len(p) /\ p[i] \in {101, 69}
    THEN LET k == ExpDigits(p, i)
         IN IF k <= Len(p) /\ p[k] \in Digits THEN ParseDigits(p, k) ELSE 0
    ELSE i

\* Position after the number that starts at i, 0 when there is none.
ParseNumber(p, i) ==
    LET a == ParseInt(p, IF p[i] = 45 THEN i + 1 ELSE i)
        b == IF a = 0 THEN 0 ELSE ParseFrac(p, a)
    IN IF b = 0 THEN 0 ELSE ParseExp(p, b)

\* Position after the quote that closes the string whose first byte is p[i],
\* 0 when the string is malformed.
ParseString(p, i) ==
    IF i > Len(p) THEN 0
    ELSE IF p[i] = 34 THEN i + 1
    ELSE IF p[i] = 92 THEN
        IF i + 1 > Len(p) THEN 0
        ELSE IF p[i + 1] \in SimpleEscapes THEN ParseString(p, i + 2)
        ELSE IF p[i + 1] = 117 /\ i + 5 <= Len(p) /\ \A k \in 2..5 : p[i + k] \in HexDigits
             THEN ParseString(p, i + 6)
        ELSE 0
    ELSE IF p[i] < 32 THEN 0
    ELSE ParseString(p, i + 1)

\* Position after the value that starts at i, 0 when there is none.
ParseValue(p, i) ==
    IF i > Len(p) THEN 0
    ELSE IF p[i] = 45 \/ p[i] \in Digits THEN ParseNumber(p, i)
    ELSE IF p[i] = 34 THEN ParseString(p, i + 1)
    ELSE IF p[i] = 91 THEN
        LET j == SkipWS(p, i + 1) IN
        IF j <= Len(p) /\ p[j] = 93 THEN j + 1 ELSE ParseElems(p, j)
    ELSE IF p[i] = 123 THEN
        LET j == SkipWS(p, i + 1) IN
        IF j <= Len(p) /\ p[j] = 125 THEN j + 1 ELSE ParseMembers(p, j)
    ELSE IF HasAt(p, i, LitTrue) THEN i + 4
    ELSE IF HasAt(p, i, LitFalse) THEN i + 5
    ELSE IF HasAt(p, i, LitNull) THEN i + 4
    ELSE 0

\* Position after the "]" that ends the elements starting at i, 0 on error.
ParseElems(p, i) ==
    LET j == ParseValue(p, i) IN
    IF j = 0 THEN 0
    ELSE LET k == SkipWS(p, j) IN
         IF k > Len(p) THEN 0
         ELSE IF p[k] = 93 THEN k + 1
         ELSE IF p[k] = 44 THEN ParseElems(p, SkipWS(p, k + 1))
         ELSE 0

\* Position after the value of the member whose key starts at i, 0 on error.
ParseMember(p, i) ==
    IF i > Len(p) \/ p[i] # 34 THEN 0
    ELSE LET s == ParseString(p, i + 1) IN
         IF s = 0 THEN 0
         ELSE LET c == SkipWS(p, s) IN
              IF c > Len(p) \/ p[c] # 58 THEN 0 ELSE ParseValue(p, SkipWS(p, c + 1))

\* Position after the "}" that ends the members starting at i, 0 on error.
ParseMembers(p, i) ==
    LET j == ParseMember(p, i) IN
    IF j = 0 THEN 0
    ELSE LET k == SkipWS(p, j) IN
         IF k > Len(p) THEN 0
         ELSE IF p[k] = 125 THEN k + 1
         ELSE IF p[k] = 44 THEN ParseMembers(p, SkipWS(p, k + 1))
         ELSE 0

\* p is one JSON value between white space.
Valid(p) ==
    LET j == ParseValue(p, SkipWS(p, 1))
    IN j # 0 /\ SkipWS(p, j) = Len(p) + 1

RECURSIVE DigitsValue(_, _, _, _), Scale(_, _), Adjust(_, _), HexValue(_, _, _, _),
          DecodeString(_, _), DecodeAt(_, _), ElemsAt(_, _), MembersAt(_, _)

\* The decimal number written in p[i..j-1], after acc.
DigitsValue(p, i, j, acc) ==
    IF i >= j THEN acc ELSE DigitsValue(p, i + 1, j, 10 * acc + (p[i] - 48))

\* The digits written in p[i..j-1].
DigitsOf(p, i, j) == [k \in 1..(j - i) |-> p[i + k - 1] - 48]

\* d without its leading zeros, d without its trailing zeros.
StripLeft(d) ==
    IF \A k \in 1..Len(d) : d[k] = 0 THEN <<>>
    ELSE SubSeq(d, CHOOSE k \in 1..Len(d) : d[k] # 0 /\ \A m \in 1..(k - 1) : d[m] = 0, Len(d))
StripRight(d) ==
    IF \A k \in 1..Len(d) : d[k] = 0 THEN <<>>
    ELSE SubSeq(d, 1, CHOOSE k \in 1..Len(d) : d[k] # 0 /\ \A m \in (k + 1)..Len(d) : d[m] = 0)

\* An exponent of more than ExpLen digits counts as ExpCap: a record is
\* shorter than the 8192 bytes of the buffer, so that the digits before the
\* exponent cannot make up for it.
ExpLen == 5
ExpCap == 100000

\* The exponent written in the digits p[i..j-1].
ExpValue(p, i, j) ==
    LET z == StripLeft(DigitsOf(p, i, j))
    IN IF Len(z) > ExpLen THEN ExpCap ELSE DigitsValue(p, j - Len(z), j, 0)

\* A number of 10^MaxFloatExp or more is above every float64.
MaxFloatExp == 309

\* A number below 10^MinFloatExp is less than half the least float64 and
\* rounds to zero.
MinFloatExp == -324

\* An integer of up to ExactDigits digits is a float64 as it stands.
ExactDigits == 15

\* A float64 is q * 2^x for an integer q below 2^53 and x from MinBinExp to
\* MaxBinExp; q is at least 2^52 unless x is MinBinExp.
Pow52 == [d |-> <<4, 5, 0, 3, 5, 9, 9, 6, 2, 7, 3, 7, 0, 4, 9, 6>>, e |-> 16]
Pow53 == [d |-> <<9, 0, 0, 7, 1, 9, 9, 2, 5, 4, 7, 4, 0, 9, 9, 2>>, e |-> 16]
MinBinExp == -1074
MaxBinExp == 971

\* Digit k of d, zero beyond its ends.
DigitAt(d, k) == IF k \in 1..Len(d) THEN d[k] ELSE 0

\* The decimal 0.r * 10^e without the leading and the trailing zero that
\* doubling or halving leaves in r.
Trim(r, e) ==
    LET f == IF r[1] = 0 THEN 2 ELSE 1
        l == IF r[Len(r)] = 0 THEN Len(r) - 1 ELSE Len(r)
    IN [d |-> SubSeq(r, f, l), e |-> e - (f - 1)]

\* Twice the decimal v = 0.d * 10^e: a digit takes a carry when the digit
\* after it is 5 or more.
Double(v) ==
    Trim([k \in 1..(Len(v.d) + 1) |->
             (2 * DigitAt(v.d, k - 1) + (IF DigitAt(v.d, k) >= 5 THEN 1 ELSE 0)) % 10],
         v.e + 1)

\* Half the decimal v: a digit takes 10 when the digit before it is odd.
Halve(v) ==
    Trim([k \in 1..(Len(v.d) + 1) |->
             (DigitAt(v.d, k) + 10 * (DigitAt(v.d, k - 1) % 2)) \div 2],
         v.e)

\* v * 2^n, one half of the doublings or halvings after the other.
Scale(v, n) ==
    IF n = 0 THEN v
    ELSE IF n = 1 THEN Double(v)
    ELSE IF n = -1 THEN Halve(v)
    ELSE CHOOSE r \in {Scale(w, n - n \div 2) : w \in {Scale(v, n \div 2)}} : TRUE

\* The decimal a is less than the decimal b.
Less(a, b) ==
    \/ a.e < b.e
    \/ /\ a.e = b.e
       /\ \E k \in 1..Len(b.d) : /\ DigitAt(a.d, k) < b.d[k]
                                 /\ \A m \in 1..(k - 1) : DigitAt(a.d, m) = b.d[m]

\* The binary exponent x of the float64 nearest to v, with w = v / 2^x: w is
\* brought between 2^52 and 2^53, or below 2^52 at MinBinExp.
Adjust(w, x) ==
    IF ~Less(w, Pow53) THEN Adjust(Halve(w), x + 1)
    ELSE IF Less(w, Pow52) /\ x > MinBinExp THEN Adjust(Double(w), x - 1)
    ELSE [w |-> w, x |-> x]

\* The integer after the integer of digits s.
Succ(s) ==
    IF \A k \in 1..Len(s) : s[k] = 9 THEN <<1>> \o [k \in 1..Len(s) |-> 0]
    ELSE LET l == CHOOSE k \in 1..Len(s) : s[k] # 9 /\ \A m \in (k + 1)..Len(s) : s[m] = 9
         IN [k \in 1..Len(s) |-> IF k < l THEN s[k] ELSE IF k = l THEN s[k] + 1 ELSE 0]

\* The integer nearest to the decimal w, the even one of two equally near.
RoundEven(w) ==
    LET f == IF w.e >= 0 THEN DigitAt(w.d, w.e + 1) ELSE 0
        odd == w.e > 0 /\ DigitAt(w.d, w.e) % 2 = 1
    IN IF f > 5 \/ (f = 5 /\ (Len(w.d) > w.e + 1 \/ odd))
       THEN Succ([k \in 1..w.e |-> DigitAt(w.d, k)])
       ELSE [k \in 1..w.e |-> DigitAt(w.d, k)]

\* A first guess of the binary exponent of the float64 nearest to a
\* decimal of exponent e, from e * log2(10).
Guess(e) ==
    LET g == ((e - 1) * 33219) \div 10000 - 52
    IN IF g < MinBinExp THEN MinBinExp ELSE g

\* The decimal v with the mark range.
Ranged(v, range) == [d |-> v.d, e |-> v.e, range |-> range]

\* The float64 q * 2^x as the decimal it is equal to; range tells that it
\* is 2^1024 or more.
Float(q, x) ==
    IF q = <<>> THEN [d |-> <<>>, e |-> 0, range |-> FALSE]
    ELSE IF x > MaxBinExp \/ (x = MaxBinExp /\ q = Pow53.d)
         THEN [d |-> <<>>, e |-> 0, range |-> TRUE]
    ELSE Ranged(Scale([d |-> StripRight(q), e |-> Len(q)], x), FALSE)

\* The float64 nearest to w * 2^x, for a.w = w and a.x = x.
Nearest(a) == Float(RoundEven(a.w), a.x)

\* The float64 nearest to the decimal v = 0.d * 10^e.
RoundFloat(v) == Nearest(Adjust(Scale(v, -Guess(v.e)), Guess(v.e)))

\* The places of the number that starts at p[i]: its first digit a, the end
\* b of its integer part and the end c of its fraction.
Places(p, i) ==
    LET a == IF p[i] = 45 THEN i + 1 ELSE i
    IN [a |-> a, b |-> ParseInt(p, a), c |-> ParseFrac(p, ParseInt(p, a))]

\* The digits of the integer part and of the fraction.
Mantissa(p, s) ==
    DigitsOf(p, s.a, s.b) \o (IF s.c > s.b THEN DigitsOf(p, s.b + 1, s.c) ELSE <<>>)

\* The exponent written from p[c] to p[j-1], 0 when there is none.
Exponent(p, c, j) ==
    IF c < j
    THEN (IF p[ExpDigits(p, c) - 1] = 45 THEN -1 ELSE 1) * ExpValue(p, ExpDigits(p, c), j)
    ELSE 0

\* The decimal 0.d * 10^e equal to 0.all * 10^n, d without zeros at its
\* ends; lead is all without its leading zeros.
Normal(all, lead, n) == [d |-> StripRight(lead), e |-> n - (Len(all) - Len(lead))]
Decimal(all, n) == Normal(all, StripLeft(all), n)

\* The float64 f with sign neg.
Signed(neg, f) == [neg |-> neg, d |-> f.d, e |-> f.e, range |-> f.range]

\* The float64 nearest to the decimal v with sign neg, as strconv.ParseFloat
\* gives it; range tells that ParseFloat fails.
Float64(neg, v) ==
    IF v.d = <<>> \/ v.e <= MinFloatExp THEN [neg |-> neg, d |-> <<>>, e |-> 0, range |-> FALSE]
    ELSE IF v.e > MaxFloatExp THEN [neg |-> neg, d |-> <<>>, e |-> 0, range |-> TRUE]
    ELSE IF Len(v.d) <= v.e /\ v.e <= ExactDigits
         THEN [neg |-> neg, d |-> v.d, e |-> v.e, range |-> FALSE]
    ELSE Signed(neg, RoundFloat(v))

\* The decimal the number with places s, ending before p[j], is written as.
Literal(p, s, j) == Decimal(Mantissa(p, s), (s.b - s.a) + Exponent(p, s.c, j))

\* The float64 the number in p[i..j-1] stands for, as strconv.ParseFloat
\* rounds it: sign, significant digits d and exponent e of the decimal
\* 0.d * 10^e that the float64 is equal to; range tells that ParseFloat fails.
NumberAt(p, i, j) == Float64(p[i] = 45, Literal(p, Places(p, i), j))

\* The number written in the hexadecimal digits p[i..j-1], after acc.
HexValue(p, i, j, acc) ==
    IF i >= j THEN acc
    ELSE HexValue(p, i + 1, j,
                  16 * acc + (IF p[i] \in Digits THEN p[i] - 48
                              ELSE IF p[i] >= 97 THEN p[i] - 87 ELSE p[i] - 55))

\* unicode.ReplacementChar, which stands for what is not a code point.
RuneError == 65533

Cont(p, i) == i <= Len(p) /\ p[i] \in 128..191
In(p, i, lo, hi) == i <= Len(p) /\ p[i] \in lo..hi

\* utf8.DecodeRune at p[i]: the code point and the bytes it takes; a byte
\* that starts no well-formed sequence is RuneError of size 1.
DecodeRune(p, i) ==
    LET c == p[i] IN
    IF c < 128 THEN [r |-> c, size |-> 1]
    ELSE IF c \in 194..223 /\ Cont(p, i + 1)
        THEN [r |-> (c - 192) * 64 + (p[i + 1] - 128), size |-> 2]
    ELSE IF /\ c \in 224..239
            /\ In(p, i + 1, IF c = 224 THEN 160 ELSE 128, IF c = 237 THEN 159 ELSE 191)
            /\ Cont(p, i + 2)
        THEN [r |-> (c - 224) * 4096 + (p[i + 1] - 128) * 64 + (p[i + 2] - 128), size |-> 3]
    ELSE IF /\ c \in 240..244
            /\ In(p, i + 1, IF c = 240 THEN 144 ELSE 128, IF c = 244 THEN 143 ELSE 191)
            /\ Cont(p, i + 2) /\ Cont(p, i + 3)
        THEN [r |-> (c - 240) * 262144 + (p[i + 1] - 128) * 4096 + (p[i + 2] - 128) * 64
                     + (p[i + 3] - 128), size |-> 4]
    ELSE [r |-> RuneError, size |-> 1]

\* The code point of the \uXXXX escape at p[i] and the bytes it takes: two
\* escapes that form a surrogate pair make one code point, half a pair is
\* RuneError.
DecodeEscapeU(p, i) ==
    LET r == HexValue(p, i + 2, i + 6, 0) IN
    IF r \in 55296..56319 /\ HasAt(p, i + 6, <<92, 117>>) /\ i + 11 <= Len(p)
       /\ (\A k \in 8..11 : p[i + k] \in HexDigits)
       /\ HexValue(p, i + 8, i + 12, 0) \in 56320..57343
    THEN [r |-> 65536 + (r - 55296) * 1024 + (HexValue(p, i + 8, i + 12, 0) - 56320),
          size |-> 12]
    ELSE IF r \in 55296..57343 THEN [r |-> RuneError, size |-> 6]
    ELSE [r |-> r, size |-> 6]

\* The code points of the well-formed string whose first byte is p[i].
DecodeString(p, i) ==
    IF p[i] = 34 THEN <<>>
    ELSE IF p[i] = 92 THEN
        IF p[i + 1] = 117
        THEN LET u == DecodeEscapeU(p, i) IN <<u.r>> \o DecodeString(p, i + u.size)
        ELSE <<Unescape(p[i + 1])>> \o DecodeString(p, i + 2)
    ELSE LET u == DecodeRune(p, i) IN <<u.r>> \o DecodeString(p, i + u.size)

\* The float64 x as a decoded value that ends before p[j]: nil, and bad, when
\* x is out of range.
NumberValue(x, j) ==
    IF x.range THEN [val |-> NilValue, bad |-> TRUE, next |-> j]
    ELSE [val |-> [num |-> [neg |-> x.neg, d |-> x.d, e |-> x.e]], bad |-> FALSE, next |-> j]

\* The value of the number in p[i..j-1].
DecodeNumber(p, i, j) == NumberValue(NumberAt(p, i, j), j)

\* The value of the well-formed JSON text that starts at p[i], as
\* json.Unmarshal stores it in an interface{}: float64, string, bool, nil,
\* []interface{}, map[string]interface{}; bad tells that a number in it is
\* out of the range of float64, and that number is stored as nil; next is
\* the position after the text.
DecodeAt(p, i) ==
    IF p[i] = 45 \/ p[i] \in Digits THEN DecodeNumber(p, i, ParseNumber(p, i))
    ELSE IF p[i] = 34 THEN
        [val |-> [str |-> DecodeString(p, i + 1)], bad |-> FALSE, next |-> ParseString(p, i + 1)]
    ELSE IF p[i] = 91 THEN
        LET x == ElemsAt(p, SkipWS(p, i + 1))
        IN [val |-> [arr |-> x.val], bad |-> x.bad, next |-> x.next]
    ELSE IF p[i] = 123 THEN
        LET x == MembersAt(p, SkipWS(p, i + 1))
        IN [val |-> [obj |-> x.val], bad |-> x.bad, next |-> x.next]
    ELSE IF p[i] = 116 THEN [val |-> [bool |-> TRUE], bad |-> FALSE, next |-> i + 4]
    ELSE IF p[i] = 102 THEN [val |-> [bool |-> FALSE], bad |-> FALSE, next |-> i + 5]
    ELSE [val |-> NilValue, bad |-> FALSE, next |-> i + 4]

\* The values of the array elements that start at p[i], up to the "]".
ElemsAt(p, i) ==
    IF p[i] = 93 THEN [val |-> <<>>, bad |-> FALSE, next |-> i + 1]
    ELSE LET x == DecodeAt(p, i)
             k == SkipWS(p, x.next)
             rest == IF p[k] = 93 THEN [val |-> <<>>, bad |-> FALSE, next |-> k + 1]
                     ELSE ElemsAt(p, SkipWS(p, k + 1))
         IN [val |-> <<x.val>> \o rest.val, bad |-> x.bad \/ rest.bad, next |-> rest.next]

\* The members that start at p[i], up to the "}", as a map from key to
\* value; of two members with one key the later one stays.
MembersAt(p, i) ==
    IF p[i] = 125 THEN [val |-> <<>>, bad |-> FALSE, next |-> i + 1]
    ELSE LET key == DecodeString(p, i + 1)
             x == DecodeAt(p, SkipWS(p, SkipWS(p, ParseString(p, i + 1)) + 1))
             k == SkipWS(p, x.next)
             rest == IF p[k] = 125 THEN [val |-> <<>>, bad |-> FALSE, next |-> k + 1]
                     ELSE MembersAt(p, SkipWS(p, k + 1))
         IN [val |-> [q \in DOMAIN rest.val \cup {key} |->
                         IF q \in DOMAIN rest.val THEN rest.val[q] ELSE x.val],
             bad |-> x.bad \/ rest.bad, next |-> rest.next]

\* p, well-formed, is a number alone.
IsNumber(p) == p[SkipWS(p, 1)] = 45 \/ p[SkipWS(p, 1)] \in Digits

\* The target after json.Unmarshal(p, data): the decoded value; the target
\* as it was when p is malformed or is a number out of range.
Decoded(p, old) ==
    IF ~Valid(p) THEN old
    ELSE LET x == DecodeAt(p, SkipWS(p, 1))
         IN IF x.bad /\ IsNumber(p) THEN old ELSE x.val

\* Mutant: decodes nothing, reports every record as malformed.
UnmarshalRejects(p) == "SyntaxError"

\* json.Unmarshal(p, data) for data = &interface{}: the error it returns.
Unmarshal(p) ==
    IF ~Valid(p) THEN "SyntaxError"
    ELSE IF DecodeAt(p, SkipWS(p, 1)).bad THEN "UnmarshalTypeError"
    ELSE Nil

----------------------------------------------------------------------------
(* Stream *)

\* What a call returned: the Stream (ok), slice and error, the fields of an
\* HTTPStatusError, the Reads it issued on the body, the calls it made to
\* json.Unmarshal and the target of UnmarshalNext after the call.
Ret(op, ok, p, e, code, msg, reads) ==
    [op |-> op, ok |-> ok, p |-> p, err |-> e, code |-> code, msg |-> msg,
     reads |-> reads, decodes |-> 0, data |-> NilValue]

\* Mutant: returns the error without latching it.
fatalNoLatch(hasBody, cc, cur, e) ==
    [closeCount |-> IF hasBody THEN cc + 1 ELSE cc, err |-> cur, ret |-> e]

\* Mutant: latches the error without closing the body.
fatalNoClose(hasBody, cc, cur, e) ==
    [closeCount |-> cc, err |-> IF cur = Nil THEN e ELSE cur, ret |-> e]

\* ts.fatal(e) on a stream with ts.body set or not, cc closes so far and
\* ts.err = cur: the new close count, the new ts.err and the value returned.
fatal(hasBody, cc, cur, e) ==
    [closeCount |-> IF hasBody THEN cc + 1 ELSE cc,
     err |-> IF cur = Nil THEN e ELSE cur,
     ret |-> e]

\* Mutant: a slice of three bytes counts as a keepalive too.
IsKeepaliveUpToThree(p) == Len(p) <= 3

\* Mutant: only a bare delimiter counts as a keepalive.
IsKeepaliveBareOnly(p) == Len(p) < 2

\* The keepalive test of Next: len(p) <= 2.
IsKeepalive(p) == Len(p) <= 2

RECURSIVE NextLoop(_, _, _, _, _, _, _)
\* The for loop of Next: ReadSlice until it fails or returns more than a
\* keepalive.
NextLoop(b, e, w, closed, t, n, k) ==
    LET rs == ReadSlice(b, e, w, closed, t, n) IN
    IF rs.err # Nil THEN
        [p |-> NilSlice, err |-> rs.err, buf |-> rs.buf, berr |-> rs.berr,
         wire |-> rs.wire, reads |-> k + rs.reads]
    ELSE IF IsKeepalive(rs.line) THEN
        NextLoop(rs.buf, rs.berr, rs.wire, closed, t, n, k + rs.reads)
    ELSE
        [p |-> rs.line, err |-> Nil, buf |-> rs.buf, berr |-> rs.berr,
         wire |-> rs.wire, reads |-> k + rs.reads]

\* Mutant: Next without the check of ts.err at its top.
NextResultUnchecked(n) ==
    LET r == NextLoop(buf, berr, wire, closeCount > 0, tail, n, 0)
        f == fatal(bodySet, closeCount, err, r.err)
    IN IF r.err # Nil
       THEN [p |-> NilSlice, err |-> f.ret, buf |-> r.buf, berr |-> r.berr,
             wire |-> r.wire, reads |-> r.reads, closeCount |-> f.closeCount,
             tserr |-> f.err]
       ELSE [p |-> r.p, err |-> Nil, buf |-> r.buf, berr |-> r.berr,
             wire |-> r.wire, reads |-> r.reads, closeCount |-> closeCount,
             tserr |-> err]

\* ts.Next() in the current state: the slice and error returned, and the
\* state it leaves.
NextResult(n) ==
    IF err # Nil THEN
        [p |-> NilSlice, err |-> err, buf |-> buf, berr |-> berr, wire |-> wire,
         reads |-> 0, closeCount |-> closeCount, tserr |-> err]
    ELSE
        LET r == NextLoop(buf, berr, wire, closeCount > 0, tail, n, 0)
            f == fatal(bodySet, closeCount, err, r.err)
        IN IF r.err # Nil
           THEN [p |-> NilSlice, err |-> f.ret, buf |-> r.buf, berr |-> r.berr,
                 wire |-> r.wire, reads |-> r.reads, closeCount |-> f.closeCount,
                 tserr |-> f.err]
           ELSE [p |-> r.p, err |-> Nil, buf |-> r.buf, berr |-> r.berr,
                 wire |-> r.wire, reads |-> r.reads, closeCount |-> closeCount,
                 tserr |-> err]

----------------------------------------------------------------------------
(* Operations *)

Init ==
    /\ phase = "idle"
    /\ \E m \in ParamChoices : heap = [r \in {"params", "pcopy"} |->
                                         IF r = "params" THEN m ELSE EmptyMap]
    /\ posted = EmptyMap
    /\ body0 = <<>>
    /\ wire = <<>>
    /\ tail = "EOF"
    /\ bodySet = FALSE
    /\ closeCount = 0
    /\ closeRet = Nil
    /\ buf = <<>>
    /\ berr = Nil
    /\ err = Nil
    /\ resp = [ok |-> FALSE, status |-> 0]
    /\ thr = NoThreads
    /\ ret = NoRet

\* Open when http.PostForm fails: return nil, ts.fatal(err).
OpenTransportError ==
    /\ phase = "idle"
    /\ LET h == SetupRequestBody(heap, "params")
           f == fatal(bodySet, closeCount, err, "ErrTransport")
       IN /\ heap' = h
          /\ posted' = h["pcopy"]
          /\ resp' = [ok |-> FALSE, status |-> 0]
          /\ closeCount' = f.closeCount
          /\ err' = f.err
          /\ ret' = Ret("Open", FALSE, NilSlice, f.ret, 0, <<>>, 0)
    /\ phase' = "openfailed"
    /\ UNCHANGED thr
    /\ UNCHANGED <<body0, wire, tail, bodySet, closeRet, buf, berr>>

\* Open when http.PostForm returns a response with the given status and body.
OpenResponse ==
    /\ phase = "idle"
    /\ \E status \in Statuses, w \in Wires, t \in ReadErrors, n \in ReadModes :
        LET h == SetupRequestBody(heap, "params") IN
        /\ heap' = h
        /\ posted' = h["pcopy"]
        /\ resp' = [ok |-> TRUE, status |-> status]
        /\ body0' = w
        /\ tail' = t
        /\ bodySet' = TRUE
        /\ buf' = <<>>
        /\ berr' = Nil
        /\ IF status # StatusOK
           THEN LET all == ReadAllLoop(w, n, <<>>, 0) IN
                /\ wire' = Drop(w, Len(all.data))
                /\ ret' = Ret("Open", FALSE, NilSlice, "HTTPStatusError", status,
                              all.data, all.reads)
                /\ phase' = "openfailed"
           ELSE /\ wire' = w
                /\ ret' = Ret("Open", TRUE, NilSlice, Nil, 0, <<>>, 0)
                /\ phase' = "open"
    /\ UNCHANGED thr
    /\ UNCHANGED <<closeCount, closeRet, err>>

Open == OpenTransportError \/ OpenResponse

\* Mutant: records the result of closing in ts.err.
CloseLatches ==
    /\ phase = "open"
    /\ IF err # Nil
       THEN /\ ret' = Ret("Close", FALSE, NilSlice, err, 0, <<>>, 0)
            /\ UNCHANGED <<closeCount, closeRet, err>>
       ELSE /\ closeCount < MaxClose
            /\ closeCount' = closeCount + 1
            /\ closeRet' \in CloseErrors
            /\ err' = closeRet'
            /\ ret' = Ret("Close", FALSE, NilSlice, closeRet', 0, <<>>, 0)
    /\ UNCHANGED thr
    /\ UNCHANGED <<phase, heap, posted, body0, wire, tail, bodySet, buf, berr, resp>>

\* Mutant: marks the stream as closed in ts.err.
CloseSetsClosed ==
    /\ phase = "open"
    /\ IF err # Nil
       THEN /\ ret' = Ret("Close", FALSE, NilSlice, err, 0, <<>>, 0)
            /\ UNCHANGED <<closeCount, closeRet, err>>
       ELSE /\ closeCount < MaxClose
            /\ closeCount' = closeCount + 1
            /\ closeRet' \in CloseErrors
            /\ err' = "ErrStreamClosed"
            /\ ret' = Ret("Close", FALSE, NilSlice, closeRet', 0, <<>>, 0)
    /\ UNCHANGED thr
    /\ UNCHANGED <<phase, heap, posted, body0, wire, tail, bodySet, buf, berr, resp>>

\* Mutant: Close without the check of ts.err at its top.
CloseUnchecked ==
    /\ phase = "open"
    /\ closeCount < MaxClose + 1
    /\ closeCount' = closeCount + 1
    /\ closeRet' \in CloseErrors
    /\ ret' = Ret("Close", FALSE, NilSlice, closeRet', 0, <<>>, 0)
    /\ UNCHANGED thr
    /\ UNCHANGED <<phase, heap, posted, body0, wire, tail, bodySet, buf, berr, err, resp>>

Close ==
    /\ phase = "open"
    /\ IF err # Nil
       THEN /\ ret' = Ret("Close", FALSE, NilSlice, err, 0, <<>>, 0)
            /\ UNCHANGED <<closeCount, closeRet>>
       ELSE /\ closeCount < MaxClose
            /\ closeCount' = closeCount + 1
            /\ closeRet' \in CloseErrors
            /\ ret' = Ret("Close", FALSE, NilSlice, closeRet', 0, <<>>, 0)
    /\ UNCHANGED thr
    /\ UNCHANGED <<phase, heap, posted, body0, wire, tail, bodySet, buf, berr, err, resp>>

\* Mutant: hands the error over and resets it.
ErrClears ==
    /\ phase = "open"
    /\ ret' = Ret("Err", FALSE, NilSlice, err, 0, <<>>, 0)
    /\ err' = Nil
    /\ UNCHANGED thr
    /\ UNCHANGED <<phase, heap, posted, body0, wire, tail, bodySet, closeCount,
                   closeRet, buf, berr, resp>>

Err ==
    /\ phase = "open"
    /\ ret' = Ret("Err", FALSE, NilSlice, err, 0, <<>>, 0)
    /\ UNCHANGED thr
    /\ UNCHANGED <<phase, heap, posted, body0, wire, tail, bodySet, closeCount,
                   closeRet, buf, berr, err, resp>>

Next ==
    /\ phase = "open"
    /\ \E n \in ReadModes :
        LET r == NextResult(n) IN
        /\ buf' = r.buf
        /\ berr' = r.berr
        /\ wire' = r.wire
        /\ closeCount' = r.closeCount
        /\ err' = r.tserr
        /\ ret' = Ret("Next", FALSE, r.p, r.err, 0, <<>>, r.reads)
    /\ UNCHANGED thr
    /\ UNCHANGED <<phase, heap, posted, body0, tail, bodySet, closeRet, resp>>

\* Mutant: decodes whatever Next returned, without looking at its error.
UnmarshalNextIgnoresErr ==
    /\ phase = "open"
    /\ \E n \in ReadModes :
        LET r == NextResult(n) IN
        /\ buf' = r.buf
        /\ berr' = r.berr
        /\ wire' = r.wire
        /\ closeCount' = r.closeCount
        /\ err' = r.tserr
        /\ ret' = [Ret("UnmarshalNext", FALSE, NilSlice, Unmarshal(r.p), 0, <<>>, r.reads)
                   EXCEPT !.decodes = 1, !.data = Decoded(r.p, NilValue)]
    /\ UNCHANGED thr
    /\ UNCHANGED <<phase, heap, posted, body0, tail, bodySet, closeRet, resp>>

\* Mutant: treats a decode error like a read error (return ts.fatal(err)).
UnmarshalNextFatal ==
    /\ phase = "open"
    /\ \E n \in ReadModes :
        LET r == NextResult(n)
            d == IF r.err # Nil THEN r.err ELSE Unmarshal(r.p)
            f == fatal(bodySet, r.closeCount, r.tserr, d)
        IN
        /\ buf' = r.buf
        /\ berr' = r.berr
        /\ wire' = r.wire
        /\ closeCount' = IF r.err = Nil /\ d # Nil THEN f.closeCount ELSE r.closeCount
        /\ err' = IF r.err = Nil /\ d # Nil THEN f.err ELSE r.tserr
        /\ ret' = IF r.err # Nil
                  THEN Ret("UnmarshalNext", FALSE, NilSlice, d, 0, <<>>, r.reads)
                  ELSE [Ret("UnmarshalNext", FALSE, NilSlice, d, 0, <<>>, r.reads)
                        EXCEPT !.decodes = 1, !.data = Decoded(r.p, NilValue)]
    /\ UNCHANGED thr
    /\ UNCHANGED <<phase, heap, posted, body0, tail, bodySet, closeRet, resp>>

UnmarshalNext ==
    /\ phase = "open"
    /\ \E n \in ReadModes :
        LET r == NextResult(n) IN
        /\ buf' = r.buf
        /\ berr' = r.berr
        /\ wire' = r.wire
        /\ closeCount' = r.closeCount
        /\ err' = r.tserr
        /\ ret' = IF r.err # Nil
                  THEN Ret("UnmarshalNext", FALSE, NilSlice, r.err, 0, <<>>, r.reads)
                  ELSE [Ret("UnmarshalNext", FALSE, NilSlice, Unmarshal(r.p), 0, <<>>,
                            r.reads)
                        EXCEPT !.decodes = 1, !.data = Decoded(r.p, NilValue)]
    /\ UNCHANGED thr
    /\ UNCHANGED <<phase, heap, posted, body0, tail, bodySet, closeRet, resp>>

Step == Open \/ Close \/ Err \/ Next \/ UnmarshalNext

Spec == Init /\ [][Step]_vars

----------------------------------------------------------------------------
(* Two threads on one Stream: one calls Next() again and again, the other
   calls Close() once. Each step is one line of the methods; ts.err and
   ts.body are shared without synchronisation. *)

\* Next, the check of ts.err at its top.
T_NextCheck ==
    /\ phase = "open"
    /\ thr.pcN = "idle"
    /\ IF err # Nil
       THEN /\ ret' = Ret("Next", FALSE, NilSlice, err, 0, <<>>, 0)
            /\ UNCHANGED thr
       ELSE /\ thr' = [thr EXCEPT !.pcN = "read", !.reads = 0, !.skipped = 0]
            /\ UNCHANGED ret
    /\ UNCHANGED <<phase, heap, posted, body0, wire, tail, bodySet, closeCount, closeRet,
                   buf, berr, err, resp>>

\* One turn of the loop inside bufio.Reader.ReadSlice(delim): search the
\* buffer, else report the pending error, else report a full buffer, else
\* fill the buffer with one Read. done tells whether ReadSlice returns.
ReadSliceStep(b, e, w, closed, t, n) ==
    LET i == IndexByte(b, CR, 1) IN
    IF i > 0 THEN
        [done |-> TRUE, line |-> Take(b, i), err |-> Nil, buf |-> Drop(b, i), berr |-> e,
         wire |-> w, reads |-> 0]
    ELSE IF e # Nil THEN
        [done |-> TRUE, line |-> b, err |-> e, buf |-> <<>>, berr |-> Nil, wire |-> w,
         reads |-> 0]
    ELSE IF Len(b) >= BufSize THEN
        [done |-> TRUE, line |-> b, err |-> "ErrBufferFull", buf |-> <<>>, berr |-> e,
         wire |-> w, reads |-> 0]
    ELSE
        LET rd == Read(w, closed, t, BufSize - Len(b), n) IN
        [done |-> FALSE, line |-> <<>>, err |-> Nil, buf |-> b \o rd.data, berr |-> rd.err,
         wire |-> Drop(w, Len(rd.data)), reads |-> 1]

\* Mutant: a failed read is tried again instead of ending the call.
T_NextReadRetries ==
    /\ thr.pcN = "read"
    /\ \E n \in ReadModes :
        LET rs == ReadSliceStep(buf, berr, wire, closeCount > 0, tail, n) IN
        /\ buf' = rs.buf
        /\ berr' = rs.berr
        /\ wire' = rs.wire
        /\ IF ~rs.done \/ rs.err # Nil THEN
               UNCHANGED <<thr, ret>>
           ELSE IF IsKeepalive(rs.line) THEN
               /\ thr' = [thr EXCEPT !.skipped = @ + 1]
               /\ UNCHANGED ret
           ELSE
               /\ thr' = [thr EXCEPT !.pcN = "idle"]
               /\ ret' = Ret("Next", FALSE, rs.line, Nil, 0, <<>>, thr.reads)
    /\ UNCHANGED <<phase, heap, posted, body0, tail, bodySet, closeCount, closeRet, err, resp>>

\* Next, in its for loop, inside ts.r.ReadSlice('\r'): one turn of ReadSlice;
\* when ReadSlice returns, Next goes to fatal, drops a keepalive or returns.
T_NextRead ==
    /\ thr.pcN = "read"
    /\ \E n \in ReadModes :
        LET rs == ReadSliceStep(buf, berr, wire, closeCount > 0, tail, n) IN
        /\ buf' = rs.buf
        /\ berr' = rs.berr
        /\ wire' = rs.wire
        /\ IF ~rs.done THEN
               /\ thr' = [thr EXCEPT !.reads = @ + rs.reads]
               /\ UNCHANGED ret
           ELSE IF rs.err # Nil THEN
               /\ thr' = [thr EXCEPT !.pcN = "fatalClose", !.e = rs.err]
               /\ UNCHANGED ret
           ELSE IF IsKeepalive(rs.line) THEN
               /\ thr' = [thr EXCEPT !.skipped = @ + 1]
               /\ UNCHANGED ret
           ELSE
               /\ thr' = [thr EXCEPT !.pcN = "idle"]
               /\ ret' = Ret("Next", FALSE, rs.line, Nil, 0, <<>>, thr.reads)
    /\ UNCHANGED <<phase, heap, posted, body0, tail, bodySet, closeCount, closeRet, err, resp>>

\* fatal, called by Next: if ts.body != nil { ts.body.Close() }.
T_FatalClose ==
    /\ thr.pcN = "fatalClose"
    /\ closeCount' = IF bodySet THEN closeCount + 1 ELSE closeCount
    /\ thr' = [thr EXCEPT !.pcN = "fatalSet"]
    /\ UNCHANGED <<phase, heap, posted, body0, wire, tail, bodySet, closeRet, buf, berr,
                   err, resp, ret>>

\* fatal, called by Next: if ts.err == nil { ts.err = err }; return err.
T_FatalSet ==
    /\ thr.pcN = "fatalSet"
    /\ err' = IF err = Nil THEN thr.e ELSE err
    /\ ret' = Ret("Next", FALSE, NilSlice, thr.e, 0, <<>>, thr.reads)
    /\ thr' = [thr EXCEPT !.pcN = "idle", !.e = Nil]
    /\ UNCHANGED <<phase, heap, posted, body0, wire, tail, bodySet, closeCount, closeRet,
                   buf, berr, resp>>

\* What an unsynchronised read of ts.err can see: its value, or, while fatal
\* is about to write it, a half-written interface value.
SeenErr == {err} \cup (IF thr.pcN = "fatalSet" /\ err = Nil THEN {"TornError"} ELSE {})

\* Mutant: Close goes on to close the body whatever ts.err holds.
T_CloseCheckUnchecked ==
    /\ phase = "open"
    /\ thr.pcC = "idle"
    /\ thr' = [thr EXCEPT !.pcC = "closing"]
    /\ UNCHANGED <<phase, heap, posted, body0, wire, tail, bodySet, closeCount, closeRet,
                   buf, berr, err, resp, ret>>

\* Close: if ts.err != nil { return ts.err }.
T_CloseCheck ==
    /\ phase = "open"
    /\ thr.pcC = "idle"
    /\ \E seen \in SeenErr :
        IF seen # Nil
        THEN /\ ret' = Ret("Close", FALSE, NilSlice, seen, 0, <<>>, 0)
             /\ thr' = [thr EXCEPT !.pcC = "sticky"]
        ELSE /\ thr' = [thr EXCEPT !.pcC = "closing"]
             /\ UNCHANGED ret
    /\ UNCHANGED <<phase, heap, posted, body0, wire, tail, bodySet, closeCount, closeRet,
                   buf, berr, err, resp>>

\* Close: return ts.body.Close().
T_CloseBody ==
    /\ thr.pcC = "closing"
    /\ closeCount' = closeCount + 1
    /\ closeRet' \in CloseErrors
    /\ ret' = Ret("Close", FALSE, NilSlice, closeRet', 0, <<>>, 0)
    /\ thr' = [thr EXCEPT !.pcC = "closed"]
    /\ UNCHANGED <<phase, heap, posted, body0, wire, tail, bodySet, buf, berr, err, resp>>

StepT == T_NextCheck \/ T_NextRead \/ T_FatalClose \/ T_FatalSet \/ T_CloseCheck \/ T_CloseBody

\* Open by one thread, then the two threads on the stream it returned.
NextT == Open \/ StepT

\* The caller's params play no part once the stream is open: one choice of them.
InitT == Init /\ heap["params"] = MapSet(EmptyMap, "track", "go")

SpecThreads == InitT /\ [][NextT]_vars

\* A call of Next that has started goes on: the calling thread runs, and where
\* ReadSlice blocks the body delivers its bytes or its error.
SpecThreadsFair ==
    /\ InitT /\ [][NextT]_vars
    /\ WF_vars(T_NextRead) /\ WF_vars(T_FatalClose) /\ WF_vars(T_FatalSet)

----------------------------------------------------------------------------
(* The stream as the server sent it, against what the calls returned *)

\* The bytes of the body the reader has handed out or dropped so far.
Consumed == Take(body0, Len(body0) - Len(buf) - Len(wire))

\* The bytes of the body not yet handed out.
Pending == buf \o wire

RECURSIVE DelimitedSlices(_)
\* s cut after each delimiter; bytes after the last delimiter belong to no slice.
DelimitedSlices(s) ==
    IF \A i \in 1..Len(s) : s[i] # CR THEN <<>>
    ELSE LET i == CHOOSE j \in 1..Len(s) : s[j] = CR /\ \A k \in 1..(j - 1) : s[k] # CR
         IN <<Take(s, i)>> \o DelimitedSlices(Drop(s, i))

LongerThanTwo(x) == Len(x) > 2

\* The application records of s, each with its delimiter.
Records(s) == SelectSeq(DelimitedSlices(s), LongerThanTwo)

\* The application records of s without their delimiters.
Payloads(s) == [i \in 1..Len(Records(s)) |-> Take(Records(s)[i], Len(Records(s)[i]) - 1)]

Last(q) == q[Len(q)]

ReadOps == {"Next", "UnmarshalNext"}

----------------------------------------------------------------------------
(* Claims *)

\* C1: once the sticky error of a returned Stream is set, every later Next(),
\* UnmarshalNext() and Err() returns that same error, the error stays as it
\* is, and no call issues a Read on the body or takes a byte from the buffer.
C1_StickyErrorReturned ==
    [][(phase = "open" /\ err # Nil) =>
          /\ err' = err
          /\ ret'.reads = 0
          /\ wire' = wire /\ buf' = buf /\ berr' = berr
          /\ (ret'.op \in {"Next", "UnmarshalNext", "Err"} => ret'.err = err)]_vars

\* C1 witness: UnmarshalNext() on a failed stream whose body still has bytes
\* to deliver returned the sticky error without reading.
C1_Witness ==
    /\ phase = "open" /\ err # Nil /\ wire # <<>> /\ closeCount = 1
    /\ ret.op = "UnmarshalNext" /\ ret.err = err /\ ret.reads = 0

\* C2 as stated: the close operation of the body is never invoked a second
\* time over any sequence of Next(), UnmarshalNext(), Err() and Close() calls.
C2_ClosedAtMostOnce == closeCount <= 1

\* C2 amended: the close operation is invoked one time by each Close() on a
\* stream without sticky error and one time by the failure transition of
\* Next(), and is never invoked once the sticky error is set.
C2_CloseOnlyWithoutStickyError ==
    [][phase = "open" =>
          /\ (closeCount' # closeCount =>
                /\ err = Nil
                /\ closeCount' = closeCount + 1
                /\ \/ ret'.op = "Close" /\ err' = Nil
                   \/ ret'.op \in ReadOps /\ err' # Nil)
          /\ (err = Nil /\ err' # Nil => closeCount' = closeCount + 1)
          /\ (err = Nil /\ ret'.op = "Close" => closeCount' = closeCount + 1)]_vars

\* C2 witness: Close() after the failure transition returned with the body
\* closed exactly once.
C2_Witness ==
    /\ phase = "open" /\ err # Nil /\ ret.op = "Close" /\ closeCount = 1

\* C3: the sticky error of a returned Stream starts nil, changes only from nil
\* to the error of the read that failed in Next(), and never changes again.
C3_StickyErrorSetOnce ==
    [][phase' = "open" =>
          /\ (phase = "idle" => err' = Nil)
          /\ (phase = "open" /\ err # Nil => err' = err)
          /\ (phase = "open" /\ err = Nil /\ err' # Nil =>
                ret'.op \in ReadOps /\ ret'.err = err' /\ ret'.p = NilSlice)]_vars

\* C3 witness: Err() reports the sticky error of a stream whose read failed
\* after Close() had returned its own error.
C3_Witness ==
    /\ phase = "open" /\ err = "ErrBodyClosed" /\ closeRet = "ErrClose"
    /\ ret.op = "Err" /\ ret.err = err

\* C4 as stated: each successful Next() returns the next record of the stream
\* with byte-exact content excluding the delimiter.
C4_RecordsWithoutDelimiter ==
    [][(ret'.op = "Next" /\ ret'.err = Nil) =>
          Payloads(Consumed') = Append(Payloads(Consumed), ret'.p)]_vars

\* C4 amended: each successful Next() returns the next delimited slice longer
\* than 2 bytes of the stream, in stream order, none skipped, duplicated or
\* reordered, byte-exact and including its trailing delimiter, whatever
\* number of keepalives lies before it.
C4_RecordsInOrder ==
    [][(ret'.op = "Next" /\ ret'.err = Nil) =>
          Records(Consumed') = Append(Records(Consumed), ret'.p)]_vars

\* C4 witness: the second of two different records, with a keepalive between
\* them, has been returned.
C4_Witness ==
    /\ ret.op = "Next" /\ ret.err = Nil
    /\ Len(Records(Consumed)) = 2
    /\ Records(Consumed)[1] # Records(Consumed)[2]
    /\ Len(DelimitedSlices(Consumed)) = 3
    /\ Len(DelimitedSlices(Consumed)[2]) <= 2
    /\ ret.p = Records(Consumed)[2]

\* C5: no successful Next() result has length <= 2; the slice returned is the
\* last one taken from the stream, so every slice of length <= 2 read before
\* it in the call was dropped.
C5_NoKeepaliveReturned ==
    (ret.op = "Next" /\ ret.err = Nil) =>
        /\ Len(ret.p) > 2
        /\ DelimitedSlices(Consumed) # <<>>
        /\ ret.p = Last(DelimitedSlices(Consumed))

\* C5 witness: a Next() call dropped a delimiter preceded by one byte and
\* returned the record after it.
C5_Witness ==
    /\ ret.op = "Next" /\ ret.err = Nil
    /\ Len(DelimitedSlices(Consumed)) = 2
    /\ Len(DelimitedSlices(Consumed)[1]) = 2
    /\ ret.p = DelimitedSlices(Consumed)[2]

\* C6: Close() with the sticky error set returns it and does not close the
\* body; Close() without sticky error closes the body once and returns
\* exactly what that close returned.
C6_CloseContract ==
    [][(phase = "open" /\ ret'.op = "Close") =>
          IF err # Nil
          THEN ret'.err = err /\ closeCount' = closeCount /\ closeRet' = closeRet
          ELSE closeCount' = closeCount + 1 /\ ret'.err = closeRet']_vars

\* C6 witness: Close() on a failed stream returned the sticky error, which is
\* not what the body's close returned to the earlier Close().
C6_Witness ==
    /\ phase = "open" /\ ret.op = "Close" /\ err # Nil /\ ret.err = err
    /\ closeRet = "ErrClose" /\ closeCount = 2

\* C7: an UnmarshalNext() whose read succeeds takes exactly one record from
\* the stream and returns the decoder's verdict on it; a decode error leaves
\* the sticky error nil and the body unclosed, so the next call goes on with
\* the record after it.
C7_DecodeErrorRecoverable ==
    [][(phase = "open" /\ ret'.op = "UnmarshalNext" /\ err = Nil
            /\ ret'.err \in {Nil, "SyntaxError"}) =>
          /\ err' = Nil
          /\ Len(Records(Consumed')) = Len(Records(Consumed)) + 1
          /\ Take(Records(Consumed'), Len(Records(Consumed))) = Records(Consumed)
          /\ ret'.err = IF Valid(Last(Records(Consumed'))) THEN Nil ELSE "SyntaxError"
          /\ closeCount' = closeCount]_vars

\* C7 witness: after a well-formed and a malformed record, UnmarshalNext()
\* returned the decode error, the stream is still without sticky error and
\* unclosed, and a further record is pending.
C7_Witness ==
    /\ phase = "open" /\ ret.op = "UnmarshalNext" /\ ret.err = "SyntaxError"
    /\ err = Nil /\ closeCount = 0
    /\ Len(Records(Consumed)) = 2
    /\ Valid(Records(Consumed)[1]) /\ ~Valid(Records(Consumed)[2])
    /\ Records(Pending) # <<>> /\ Valid(Records(Pending)[1])

\* C8: after a failed Open that had a response body, the body has been closed.
C8_FailedOpenClosesBody ==
    (phase = "openfailed" /\ bodySet) => closeCount >= 1

\* C9: Open returns a Stream exactly when the POST succeeded with status 200;
\* for another status it returns no Stream and an HTTPStatusError with that
\* status code and the whole response body as message; on a transport failure
\* it returns no Stream and the transport error.
C9_OpenResult ==
    /\ (phase = "open" => resp.ok /\ resp.status = StatusOK)
    /\ (phase = "open" /\ ret.op = "Open" => ret.ok /\ ret.err = Nil)
    /\ (phase = "openfailed" =>
          /\ ~(resp.ok /\ resp.status = StatusOK)
          /\ ret.op = "Open" /\ ~ret.ok
          /\ IF resp.ok
             THEN ret.err = "HTTPStatusError" /\ ret.code = resp.status /\ ret.msg = body0
             ELSE ret.err = "ErrTransport")

\* C9 witness: a 503 response with a body longer than the read buffer gave an
\* HTTPStatusError with the whole body.
C9_Witness ==
    /\ phase = "openfailed" /\ ret.code = 503 /\ ret.err = "HTTPStatusError"
    /\ Len(ret.msg) > BufSize /\ ret.msg = body0

\* C10: Open leaves the caller's parameter map as it was.
C10_ParamsUnmodified == [][heap'["params"] = heap["params"]]_vars

\* C10 witness: Open has posted a signed form with a fresh oauth_signature,
\* and the caller's map still holds its own oauth_signature and no oauth_token.
C10_Witness ==
    /\ phase # "idle"
    /\ "oauth_signature" \in DOMAIN posted /\ posted["oauth_signature"] = <<"signature">>
    /\ "oauth_signature" \in DOMAIN heap["params"]
    /\ heap["params"]["oauth_signature"] = <<"stale">>
    /\ "oauth_token" \notin DOMAIN heap["params"]

----------------------------------------------------------------------------
(* Claims about single calls, continued *)

\* No delimited slice of s is longer than the read buffer.
FitsBuffer(s) == \A i \in 1..Len(DelimitedSlices(s)) : Len(DelimitedSlices(s)[i]) <= BufSize

RECURSIVE DropKeepalives(_)
\* s without the delimited slices of at most 2 bytes it starts with.
DropKeepalives(s) ==
    IF DelimitedSlices(s) # <<>> /\ Len(Head(DelimitedSlices(s))) <= 2
    THEN DropKeepalives(Drop(s, Len(Head(DelimitedSlices(s)))))
    ELSE s

\* After its leading keepalives, s goes on for a full buffer without delimiter.
Oversized(s) ==
    LET q == DropKeepalives(s)
    IN Len(q) >= BufSize /\ \A i \in 1..BufSize : q[i] # CR

DecodeErrors == {"SyntaxError", "UnmarshalTypeError"}

\* C11 as stated: on a stream read by Next() calls only, a Next() succeeds
\* with the next record while a record longer than 2 bytes is left, and fails
\* and sets the sticky error when none is left.
C11_AllRecordsThenError ==
    [][(phase = "open" /\ ret'.op = "Next" /\ err = Nil /\ closeCount = 0) =>
          IF Records(Pending) # <<>>
          THEN /\ ret'.err = Nil /\ err' = Nil
               /\ ret'.p = Head(Records(Pending))
               /\ Records(Pending') = Tail(Records(Pending))
          ELSE /\ ret'.err # Nil /\ ret'.p = NilSlice
               /\ err' = ret'.err]_vars

\* C11 amended: the same for a source none of whose records is longer than
\* the read buffer: the first n Next() calls return the n records in order
\* and call n+1 returns an error and sets the sticky error.
C11_FittingRecordsThenError ==
    [][(phase = "open" /\ ret'.op = "Next" /\ err = Nil /\ closeCount = 0
            /\ FitsBuffer(body0)) =>
          IF Records(Pending) # <<>>
          THEN /\ ret'.err = Nil /\ err' = Nil
               /\ ret'.p = Head(Records(Pending))
               /\ Records(Pending') = Tail(Records(Pending))
          ELSE /\ ret'.err # Nil /\ ret'.p = NilSlice
               /\ err' = ret'.err]_vars

\* C11 witness: the source sent two records with a keepalive among them and
\* ended; the whole body is consumed and the Next() after the last record
\* returned the end of the stream, now the sticky error.
C11_Witness ==
    /\ phase = "open" /\ ret.op = "Next" /\ ret.reads > 0
    /\ ret.err = tail /\ err = tail /\ closeCount = 1
    /\ Consumed = body0 /\ FitsBuffer(body0)
    /\ Len(Records(body0)) = 2 /\ Len(DelimitedSlices(body0)) = 3

\* C12: a Next() whose read fails closes the body, sets the sticky error to
\* the read error and returns that error with no record, all in that call.
C12_FailureTransition ==
    [][(phase = "open" /\ err = Nil /\ ret'.op = "Next" /\ ret'.err # Nil) =>
          /\ ret'.err \in {tail, "ErrBufferFull", "ErrBodyClosed"}
          /\ err' = ret'.err
          /\ closeCount' = closeCount + 1
          /\ ret'.p = NilSlice]_vars

\* C12 witness: Next() met the clean end of a stream it had read records
\* from; the body is closed once and the sticky error is io.EOF.
C12_Witness ==
    /\ phase = "open" /\ tail = "EOF" /\ ret.op = "Next" /\ ret.reads > 0
    /\ ret.err = "EOF" /\ err = "EOF" /\ closeCount = 1 /\ ret.p = NilSlice
    /\ Records(Consumed) # <<>>

\* C14: UnmarshalNext() returns the error of Next() without decoding and
\* with the target untouched; when Next() succeeds it decodes the record
\* once and returns exactly the decoder's result.
C14_DecodeOnlyAfterSuccess ==
    [][(phase = "open" /\ ret'.op = "UnmarshalNext") =>
          IF err' # Nil
          THEN /\ ret'.err = err'
               /\ (err # Nil => ret'.err = err)
               /\ ret'.decodes = 0
               /\ ret'.data = NilValue
          ELSE /\ ret'.decodes = 1
               /\ Records(Consumed') # <<>>
               /\ \E rec \in {Last(Records(Consumed'))} :
                     /\ ret'.err = Unmarshal(rec)
                     /\ ret'.data = Decoded(rec, NilValue)]_vars

\* C14 witness: UnmarshalNext() decoded the record "111" into the target.
C14_Witness ==
    /\ phase = "open" /\ ret.op = "UnmarshalNext" /\ ret.err = Nil
    /\ ret.decodes = 1 /\ ret.data = [num |-> [neg |-> FALSE, d |-> <<1, 1, 1>>, e |-> 3]]

\* C15: Err() changes nothing, reads nothing and closes nothing; it returns
\* ts.err, which is nil after a call that returned a record or a decode
\* error and is the read error after a call that returned one.
C15_ErrReadOnly ==
    [][(phase = "open" /\ ret'.op = "Err") =>
          /\ ret'.err = err
          /\ ret'.reads = 0
          /\ UNCHANGED <<phase, heap, posted, body0, wire, tail, bodySet, closeCount,
                         closeRet, buf, berr, err, resp>>
          /\ (ret.op \in ReadOps =>
                ret'.err = IF ret.err \in {Nil} \cup DecodeErrors THEN Nil ELSE ret.err)]_vars

\* C15 witness: Err() returned nil on a stream that has skipped a keepalive
\* and handed out a malformed record.
C15_Witness ==
    /\ phase = "open" /\ ret.op = "Err" /\ ret.err = Nil /\ closeCount = 0
    /\ \E i \in 1..Len(DelimitedSlices(Consumed)) : Len(DelimitedSlices(Consumed)[i]) <= 2
    /\ \E i \in 1..Len(Records(Consumed)) : ~Valid(Records(Consumed)[i])

\* C17: a slice returned by Next() has at least 3 and at most BufSize bytes,
\* ends with the delimiter and holds no other delimiter; a failing Next()
\* returns no slice and drops the bytes read after the last delimiter.
C17_ReturnedSliceShape ==
    /\ (ret.op = "Next" /\ ret.err = Nil) =>
          /\ Len(ret.p) >= 3 /\ Len(ret.p) <= BufSize
          /\ ret.p[Len(ret.p)] = CR
          /\ \A i \in 1..(Len(ret.p) - 1) : ret.p[i] # CR
    /\ (ret.op = "Next" /\ ret.err # Nil) => ret.p = NilSlice
    /\ (ret.op \in ReadOps /\ ret.err \notin {Nil} \cup DecodeErrors /\ ret.reads > 0) => buf = <<>>

\* C17 witness: Next() failed at the end of a stream whose last bytes follow
\* the last delimiter; they are consumed and were not returned.
C17_Witness ==
    /\ phase = "open" /\ ret.op = "Next" /\ ret.err = tail /\ ret.reads > 0
    /\ Consumed = body0 /\ body0 # <<>> /\ body0[Len(body0)] # CR
    /\ Records(body0) # <<>> /\ Len(Head(Records(body0))) > 3

\* C18: a Next() that meets a record with no delimiter within a full buffer
\* returns the buffer-full error, sets the sticky error and closes the body;
\* from then on no call returns a record, decodes or takes bytes.
C18_BufferFullIsFatal ==
    [][phase = "open" =>
          /\ (err = Nil /\ closeCount = 0 /\ ret'.op \in ReadOps /\ Oversized(Pending)) =>
                /\ ret'.err = "ErrBufferFull" /\ err' = "ErrBufferFull"
                /\ closeCount' = closeCount + 1
                /\ ret'.p = NilSlice /\ ret'.decodes = 0
          /\ err = "ErrBufferFull" =>
                /\ err' = err
                /\ ret'.p = NilSlice /\ ret'.decodes = 0
                /\ Pending' = Pending]_vars

\* C18 witness: after the buffer-full error a later Next() returned the
\* sticky error although a record that fits is still pending.
C18_Witness ==
    /\ phase = "open" /\ err = "ErrBufferFull" /\ closeCount = 1
    /\ ret.op = "Next" /\ ret.err = err /\ ret.reads = 0
    /\ Records(Pending) # <<>>

\* C19: Close() leaves the sticky error as it is; a Next() after a Close()
\* on a stream without sticky error returns the next record when the buffer
\* holds one; otherwise it fails, with the read error the reader still holds
\* or else with the error of a Read of the closed body.
C19_CloseLeavesErr ==
    [][phase = "open" =>
          /\ (ret'.op = "Close" => err' = err)
          /\ (ret'.op = "Next" /\ err = Nil /\ closeCount > 0) =>
                IF Records(buf) # <<>>
                THEN /\ ret'.err = Nil /\ err' = Nil /\ ret'.reads = 0
                     /\ ret'.p = Head(Records(buf))
                ELSE IF berr # Nil
                THEN /\ ret'.reads = 0
                     /\ ret'.err = berr /\ err' = berr
                     /\ closeCount' = closeCount + 1
                ELSE /\ ret'.reads > 0
                     /\ ret'.err = "ErrBodyClosed" /\ err' = "ErrBodyClosed"
                     /\ closeCount' = closeCount + 1]_vars

\* C19 witness: after a Close() that returned an error the sticky error is
\* nil and Next() returned a record that was in the buffer.
C19_Witness ==
    /\ phase = "open" /\ closeCount = 1 /\ closeRet = "ErrClose" /\ err = Nil
    /\ ret.op = "Next" /\ ret.err = Nil /\ ret.reads = 0 /\ Len(ret.p) >= 3

----------------------------------------------------------------------------
(* Claims about the steps of a call and about two threads *)

\* C13: a Next() call leaves its loop directly only with a slice longer than
\* 2 bytes; it stays in the loop only by dropping a keepalive, which shortens
\* what is left of the stream, or by one Read that brings bytes or an error
\* that ends the next turn; it goes to fatal only
\* with an error; and every call that has started returns.
C13_NextReturns ==
    /\ [][(thr.pcN = "read" /\ thr'.pcN = "idle") =>
             (ret'.op = "Next" /\ ret'.err = Nil /\ Len(ret'.p) > 2)]_vars
    /\ [][(thr.pcN = "read" /\ thr'.pcN = "read" /\ thr'.pcC = thr.pcC /\ thr' # thr) =>
             \/ /\ thr'.skipped = thr.skipped + 1 /\ thr'.reads = thr.reads
                /\ Len(Pending') < Len(Pending)
             \/ /\ thr'.skipped = thr.skipped
                /\ (Len(wire') < Len(wire) \/ (berr = Nil /\ berr' # Nil))
                /\ Pending' = Pending]_vars
    /\ [][(thr.pcN = "read" /\ thr'.pcN = "fatalClose") => thr'.e # Nil]_vars
    /\ (thr.pcN # "idle") ~> (thr.pcN = "idle")

\* C13 witness: one Next() call dropped two keepalives in a row and then
\* returned a record.
C13_Witness ==
    /\ thr.pcN = "idle" /\ thr.skipped = 2
    /\ ret.op = "Next" /\ ret.err = Nil /\ Len(ret.p) > 2
    /\ Len(DelimitedSlices(Consumed)) = 3

\* C16: with one Close() and a Next() in another thread the body is closed
\* twice only when Close() passed its check of ts.err; a Close() that starts
\* when no Next() is in progress and the stream has failed returns the sticky
\* error and closes nothing.
C16_CloseAfterFailureIsSafe ==
    [][/\ (thr.pcC = "idle" /\ thr'.pcC # "idle" /\ thr.pcN = "idle" /\ err # Nil) =>
             /\ thr'.pcC = "sticky"
             /\ closeCount = 1 /\ closeCount' = closeCount
             /\ ret'.op = "Close" /\ ret'.err = err
       /\ (thr'.pcC = "sticky" => closeCount' = 1)
       /\ (closeCount' = 2 => thr'.pcC = "closed")
       /\ closeCount' <= 2]_vars

\* C16 witness: Close() passed its check while Next() was in progress; the
\* failing Next() closed the body in fatal, Close() closed it again, and
\* Next() has not yet set the sticky error.
C16_Witness ==
    /\ thr.pcC = "closed" /\ thr.pcN = "fatalSet" /\ thr.reads > 0
    /\ closeCount = 2 /\ err = Nil

====
